---- MODULE Spec2Model ----
(***************************************************************************)
(* Tone synthesis and sound-level estimation of the CLUE board facade      *)
(* (src/clue.py, class Clue): start_tone / stop_tone / play_tone and the   *)
(* sound_level property, with the audio-output object, the waveform table, *)
(* the raw sample and the microphone buffer they share.                    *)
(*                                                                         *)
(* The program is single-threaded and synchronous: every public call runs  *)
(* to completion (or to the exception it raises) before the next one, so   *)
(* each call is one action.  The hardware drivers (audiopwmio, audiocore,  *)
(* audiobusio, time) are modelled by the calls the code makes on them:     *)
(* `trace` lists the driver calls of the last public call, `opened` and    *)
(* `released` count PWMAudioOut constructions and deinit() calls.          *)
(***************************************************************************)
EXTENDS Integers, Sequences, FiniteSets

VARIABLES
    sample,            \* self._sample: None or the PWMAudioOut object
    samples,           \* self._samples: None or the microphone buffer
    sine_wave,         \* self._sine_wave: None or the waveform table
    sine_wave_sample,  \* self._sine_wave_sample: None or the RawSample
    opened,            \* PWMAudioOut(board.SPEAKER) constructions so far
    released,          \* PWMAudioOut.deinit() calls so far
    trace,             \* driver calls made by the last public call, in order
    raised,            \* exception the last public call ended with, or "None"
    ret,               \* value the last public call returned, or None
    call               \* the last public call and its arguments

vars == <<sample, samples, sine_wave, sine_wave_sample, opened, released,
          trace, raised, ret, call>>

----------------------------------------------------------------------------
(* Bounds of the model. *)

\* start_tone / play_tone are explored until this many sessions were opened.
MaxSessions == 3

\* Largest microphone sample value drawn (the hardware range is 16 bits; the
\* sums of squares of 160 such values must stay inside TLC's 32-bit integers).
MaxSampleValue == 2000

(* Program constants. *)
DefaultLength == 100
MaxSampleRate == 350000
BufferLength == 160

\* Frequencies inside the documented contract (positive integers): below,
\* at and above the 3500 Hz point where 100 * f reaches 350000, and at and
\* above 350000 Hz.
Frequencies == {440, 3500, 3501, 5000, 350000, 350001}

\* Frequencies outside the contract.
BadFrequencies == {0, -1}

\* Durations in seconds; time.sleep accepts any non-negative one.
Durations == {0, 1}
BadDurations == {-1}

SampleValues == {0, 409, MaxSampleValue}

----------------------------------------------------------------------------
(* Values. *)

None == [tag |-> "None"]

\* array.array("H", items)
array(items) == [tag |-> "array", items |-> items]

\* audiopwmio.PWMAudioOut(board.SPEAKER): a fresh output is not playing.
PWMAudioOut == [tag |-> "PWMAudioOut", playing |-> FALSE]

\* audiocore.RawSample(buffer): sample_rate defaults to 8000 until assigned.
RawSample == [tag |-> "RawSample", sample_rate |-> 8000]

Self == [sample |-> sample, samples |-> samples, sine_wave |-> sine_wave,
         sine_wave_sample |-> sine_wave_sample, opened |-> opened,
         released |-> released, trace |-> trace, raised |-> raised,
         ret |-> ret]

----------------------------------------------------------------------------
(* Clue._sine_sample *)

tone_volume == (2 ^ 15) - 1
shift == 2 ^ 15

\* math.sin(2*pi*(i/length)) as the fraction <<sign, p, q>> = sign * p / q.
\* TLA+ has no reals: the sine is computed by Bhaskara's rational formula
\* sin(x) ~ 16x(pi-x) / (5pi^2 - 4x(pi-x)) on each half cycle, which is exact
\* at 0, 1/12, 1/4, 5/12 and 1/2 of a half cycle and within 0.0017 elsewhere.
sin_cycle(i, length) ==
    LET p == IF 2 * i <= length THEN i * (length - 2 * i)
                                ELSE (2 * i - length) * (length - i)
    IN  <<IF 2 * i <= length THEN 1 ELSE -1, 32 * p, 5 * length * length - 8 * p>>

\* int(tone_volume * sin + shift): the sum is positive, so int() is floor.
sine_value(i, length) ==
    LET s == sin_cycle(i, length)
        n == tone_volume * s[2]
    IN  IF s[1] = 1 THEN shift + (n \div s[3])
                    ELSE shift - ((n + s[3] - 1) \div s[3])

\* for i in range(length): yield ...   (range of a length <= 0 is empty)
sine_sample(length) ==
    [k \in 1..length |-> sine_value(k - 1, length)]

----------------------------------------------------------------------------
(* Clue._generate_sample *)

\* Variant: the guard on an existing output is dropped, so every call rebuilds.
generate_sample_always(self, length) ==
    [self EXCEPT !.sine_wave = array(sine_sample(length)),
                 !.sample = PWMAudioOut,
                 !.opened = @ + 1,
                 !.trace = Append(@, "PWMAudioOut"),
                 !.sine_wave_sample = RawSample]

generate_sample(self, length) ==
    IF self.sample # None
    THEN self
    ELSE [self EXCEPT !.sine_wave = array(sine_sample(length)),
                      !.sample = PWMAudioOut,
                      !.opened = @ + 1,
                      !.trace = Append(@, "PWMAudioOut"),
                      !.sine_wave_sample = RawSample]

(* Clue.start_tone *)

tone_length(frequency) ==
    IF DefaultLength * frequency > MaxSampleRate
    THEN MaxSampleRate \div frequency
    ELSE DefaultLength

\* Variant: play() is called without the test of `playing`.
start_tone_retrigger(self, frequency) ==
    LET s1 == generate_sample(self, tone_length(frequency))
        s2 == [s1 EXCEPT !.sine_wave_sample.sample_rate =
                              Len(s1.sine_wave.items) * frequency]
    IN  [s2 EXCEPT !.sample.playing = TRUE, !.trace = Append(@, "play")]

start_tone(self, frequency) ==
    LET s1 == generate_sample(self, tone_length(frequency))
        s2 == [s1 EXCEPT !.sine_wave_sample.sample_rate =
                              Len(s1.sine_wave.items) * frequency]
    IN  IF ~ s2.sample.playing
        THEN [s2 EXCEPT !.sample.playing = TRUE, !.trace = Append(@, "play")]
        ELSE s2

(* Clue.stop_tone *)

\* Variant: playback is stopped but the output is neither released nor dropped.
stop_tone_keeps_output(self) ==
    IF self.sample # None /\ self.sample.playing
    THEN [self EXCEPT !.trace = Append(@, "stop"),
                      !.sample.playing = FALSE]
    ELSE self

stop_tone(self) ==
    IF self.sample # None /\ self.sample.playing
    THEN [self EXCEPT !.trace = @ \o <<"stop", "deinit">>,
                      !.released = @ + 1,
                      !.sample = None]
    ELSE self

(* Clue.play_tone *)

\* time.sleep(duration): raises ValueError for a negative duration.
sleep(self, duration) ==
    IF duration < 0
    THEN [self EXCEPT !.raised = "ValueError"]
    ELSE [self EXCEPT !.trace = Append(@, "sleep")]

\* Variant: the closing stop_tone() is missing.
play_tone_no_stop(self, frequency, duration) ==
    sleep(start_tone(self, frequency), duration)

play_tone(self, frequency, duration) ==
    LET s1 == start_tone(self, frequency)
        s2 == sleep(s1, duration)
    IN  IF s2.raised # "None" THEN s2 ELSE stop_tone(s2)

----------------------------------------------------------------------------
(* Clue._normalized_rms *)

\* sum(values[lo..hi]), by halves to keep the evaluation shallow.
RECURSIVE sum_range(_, _, _)
sum_range(values, lo, hi) ==
    IF lo > hi THEN 0
    ELSE IF lo = hi THEN values[lo]
    ELSE LET mid == (lo + hi) \div 2
         IN  sum_range(values, lo, mid) + sum_range(values, mid + 1, hi)

sum(values) == sum_range(values, 1, Len(values))

\* float(sample - mean_values) * (sample - mean_values) for sample in values
squares(values, mean_values) ==
    [k \in 1..Len(values) |->
        (values[k] - mean_values) * (values[k] - mean_values)]

\* Variant: the mean is rounded to the nearest integer instead of truncated.
normalized_rms_rounded(values) ==
    LET mean_values == (2 * sum(values) + Len(values)) \div (2 * Len(values))
    IN  [tag |-> "sqrt", num |-> sum(squares(values, mean_values)),
         den |-> Len(values)]

\* int(sum(values) / len(values)) truncates; the values are unsigned, so the
\* quotient is not negative and truncation is floor division.
\* math.sqrt(radicand) is kept as its radicand num / den.
normalized_rms(values) ==
    LET mean_values == sum(values) \div Len(values)
    IN  [tag |-> "sqrt", num |-> sum(squares(values, mean_values)),
         den |-> Len(values)]

(* Clue.sound_level *)

\* self._mic.record(destination, destination_length): fills the first
\* destination_length entries in place with the captured samples.
record(destination, destination_length, captured) ==
    [destination EXCEPT !.items =
        [k \in 1..Len(@) |-> IF k <= destination_length THEN captured[k] ELSE @[k]]]

sound_level(self, captured) ==
    LET s1 == IF self.sample = None
              THEN [self EXCEPT !.samples = array([k \in 1..BufferLength |-> 0])]
              ELSE self
    IN  IF s1.samples = None
        THEN [s1 EXCEPT !.raised = "TypeError"]   \* len(None)
        ELSE LET s2 == [s1 EXCEPT !.samples = record(@, Len(@.items), captured),
                                  !.trace = Append(@, "record")]
             IN  [s2 EXCEPT !.ret = normalized_rms(s2.samples.items)]

----------------------------------------------------------------------------
(* The microphone: what one capture of BufferLength samples may hold. *)

\* BufferLength - 1 samples of value a, then one of value b.
Fill(a, b) ==
    [k \in 1..BufferLength |-> IF k = BufferLength THEN b ELSE a]

\* Silence, constant levels, and a level with one louder sample at the end
\* (whose sum is no multiple of the buffer length).
Captures ==
    {Fill(p[1], p[2]) : p \in {q \in SampleValues \X SampleValues : q[1] <= q[2]}}

----------------------------------------------------------------------------
(* The state machine. *)

\* Clue.__init__
Init ==
    /\ sample = None
    /\ samples = None
    /\ sine_wave = None
    /\ sine_wave_sample = None
    /\ opened = 0
    /\ released = 0
    /\ trace = <<>>
    /\ raised = "None"
    /\ ret = None
    /\ call = [op |-> "__init__"]

\* The object as a public call finds it.
Enter == [Self EXCEPT !.trace = <<>>, !.raised = "None", !.ret = None]

\* The object and the hardware as a call leaves them.
Leave(result, c) ==
    \E self \in {result} :
        /\ sample' = self.sample
        /\ samples' = self.samples
        /\ sine_wave' = self.sine_wave
        /\ sine_wave_sample' = self.sine_wave_sample
        /\ opened' = self.opened
        /\ released' = self.released
        /\ trace' = self.trace
        /\ raised' = self.raised
        /\ ret' = self.ret
        /\ call' = c

StartTone ==
    /\ opened < MaxSessions
    /\ \E frequency \in Frequencies :
          Leave(start_tone(Enter, frequency),
                [op |-> "start_tone", frequency |-> frequency])

StopTone ==
    /\ Leave(stop_tone(Enter), [op |-> "stop_tone"])

PlayTone ==
    /\ opened < MaxSessions
    /\ \E frequency \in Frequencies, duration \in Durations :
          Leave(play_tone(Enter, frequency, duration),
                [op |-> "play_tone", frequency |-> frequency,
                 duration |-> duration])

SoundLevel ==
    /\ \E captured \in Captures :
          Leave(sound_level(Enter, captured), [op |-> "sound_level"])

\* Calls with an argument outside the documented contract.
StartToneBad ==
    /\ opened < MaxSessions
    /\ \E frequency \in BadFrequencies :
          Leave(start_tone(Enter, frequency),
                [op |-> "start_tone", frequency |-> frequency])

\* time.sleep is handed a negative duration.
PlayToneBadDuration ==
    /\ opened < MaxSessions
    /\ \E frequency \in Frequencies, duration \in BadDurations :
          Leave(play_tone(Enter, frequency, duration),
                [op |-> "play_tone", frequency |-> frequency,
                 duration |-> duration])

PlayToneBadFrequency ==
    /\ opened < MaxSessions
    /\ \E frequency \in BadFrequencies, duration \in Durations \cup BadDurations :
          Leave(play_tone(Enter, frequency, duration),
                [op |-> "play_tone", frequency |-> frequency,
                 duration |-> duration])

Next == StartTone \/ StopTone \/ PlayTone \/ SoundLevel

Spec == Init /\ [][Next]_vars

\* In-contract frequencies, and durations time.sleep rejects.
NextSleep == PlayToneBadDuration \/ Next

SpecSleep == Init /\ [][NextSleep]_vars

NextAny == StartToneBad \/ PlayToneBadFrequency \/ NextSleep

SpecAny == Init /\ [][NextAny]_vars

----------------------------------------------------------------------------
(* State descriptions used by the properties. *)

Playing == sample # None /\ sample.playing

Idle == ~ Playing

OpenSessions == opened - released

Rate == sine_wave_sample.sample_rate

Table == sine_wave.items

Min(a, b) == IF a <= b THEN a ELSE b

IsToneCall(c) == c.op \in {"start_tone", "play_tone"}

----------------------------------------------------------------------------
(* C1: whenever a tone is playing, the playback rate set on the raw sample *)
(* (table length x most recently requested frequency) is at most 350,000   *)
(* samples per second.                                                     *)
C1_RateBounded ==
    Playing =>
        /\ Rate <= MaxSampleRate
        /\ call.op = "start_tone" => Rate = Len(Table) * call.frequency

(* C2: the waveform table is created once and never changes afterwards,    *)
(* across any later start and stop calls.                                  *)
C2_TableImmutable ==
    [][sine_wave # None => sine_wave' = sine_wave]_vars

(* C2, as amended: the table is fixed for as long as an audio-output       *)
(* object exists; it is rebuilt only by a start_tone / play_tone call that *)
(* finds no output object (the first start and every start after a stop),  *)
(* with the length computed for that call's frequency; stop_tone and       *)
(* sound_level never change it.                                            *)
C2_TableFixedWhileOutputExists ==
    [][ /\ sample # None => sine_wave' = sine_wave
        /\ call'.op \in {"stop_tone", "sound_level"} => sine_wave' = sine_wave
        /\ sine_wave' # sine_wave =>
              /\ sample = None
              /\ IsToneCall(call')
              /\ Len(sine_wave'.items) = tone_length(call'.frequency)
      ]_vars

\* A start_tone while playing, for a frequency whose own table length differs
\* from the length of the table in use.
C2_Witness ==
    /\ call.op = "start_tone"
    /\ Playing
    /\ trace = <<>>
    /\ Len(Table) # tone_length(call.frequency)

(* C3: start_tone while already Playing leaves the player Playing, opens   *)
(* no second audio-output session and neither stops nor retriggers         *)
(* playback: exactly one session is open afterwards.                       *)
C3_StartWhilePlaying ==
    [][ (Playing /\ call'.op = "start_tone") =>
            /\ Playing'
            /\ opened' = opened
            /\ released' = released
            /\ OpenSessions' = 1
            /\ trace' = <<>>
      ]_vars

\* Two starts without a stop in between, on the first session ever opened.
C3_Witness ==
    /\ call.op = "start_tone"
    /\ trace = <<>>
    /\ Playing
    /\ opened = 1
    /\ released = 0

(* C4: sessions opened minus sessions released is 1 when Playing and 0     *)
(* when Idle; stop_tone when Playing releases the session and leaves the   *)
(* player Idle; stop_tone when Idle raises nothing and releases nothing.   *)
C4_NoLeak ==
    /\ [](OpenSessions = IF Playing THEN 1 ELSE 0)
    /\ [][ call'.op = "stop_tone" =>
              /\ Idle'
              /\ raised' = "None"
              /\ Playing => (released' = released + 1 /\ sample' = None
                             /\ trace' = <<"stop", "deinit">>)
              /\ Idle => (released' = released /\ opened' = opened
                          /\ trace' = <<>>)
         ]_vars

\* A stop_tone that found nothing to stop, after two complete sessions.
C4_Witness ==
    /\ call.op = "stop_tone"
    /\ trace = <<>>
    /\ Idle
    /\ opened >= 2
    /\ released = opened

(* C5: start_tone on a player without a table builds a table of length     *)
(* min(100, 350000 // f), and never shorter than 1.                        *)
C5_TableLength ==
    [][ (sine_wave = None /\ call'.op = "start_tone") =>
            /\ Len(sine_wave'.items) = Min(DefaultLength, MaxSampleRate \div call'.frequency)
            /\ Len(sine_wave'.items) >= 1
      ]_vars

(* C6: play_tone starts, then waits, then stops, in that order; when it    *)
(* returns the player is Idle with no session open, from any prior state   *)
(* and for a zero duration.                                                *)
C6_PlayToneLeavesIdle ==
    (call.op = "play_tone" /\ raised = "None") =>
        /\ Idle
        /\ sample = None
        /\ OpenSessions = 0
        /\ trace \in {<<"PWMAudioOut", "play", "sleep", "stop", "deinit">>,
                      <<"sleep", "stop", "deinit">>}

\* A zero-duration play_tone called while a tone was already playing.
C6_Witness ==
    /\ call.op = "play_tone"
    /\ call.duration = 0
    /\ raised = "None"
    /\ trace = <<"sleep", "stop", "deinit">>
    /\ Idle

(* C7: when play_tone ends with an error after the session was opened, the *)
(* session has been released and the player is Idle.                       *)
C7_ReleasedOnError ==
    (IsToneCall(call) /\ raised # "None") =>
        /\ Idle
        /\ OpenSessions = 0

(* C8: start_tone with a non-positive frequency, and play_tone with a      *)
(* non-positive frequency or duration, fail with InvalidArgument and leave *)
(* the player unchanged: no table built, no session opened, no playback.   *)
BadArguments(c) ==
    /\ IsToneCall(c)
    /\ \/ c.frequency <= 0
       \/ c.op = "play_tone" /\ c.duration <= 0

C8_InvalidArgumentRejected ==
    [][ BadArguments(call') =>
            /\ raised' = "InvalidArgument"
            /\ trace' = <<>>
            /\ UNCHANGED <<sample, sine_wave, sine_wave_sample, opened, released>>
      ]_vars

(* C9: the metric is computed from the integer-truncated mean m =          *)
(* floor(sum(x)/n): result^2 * n is the sum of (x_i - m)^2, here expanded  *)
(* as sum(x_i^2) - 2*m*sum(x) + n*m^2; it is 0 for a buffer of identical   *)
(* samples and never negative.                                             *)
Squared(values) == [k \in 1..Len(values) |-> values[k] * values[k]]

C9_TruncatedMeanRms ==
    (call.op = "sound_level" /\ raised = "None") =>
        LET x == samples.items
            n == Len(x)
            m == sum(x) \div n
        IN  /\ ret.den = n
            /\ ret.num = (sum(Squared(x)) + n * m * m) - 2 * m * sum(x)
            /\ ret.num >= 0
            /\ (\A k \in 1..n : x[k] = x[1]) => ret.num = 0

\* A capture whose sum is no multiple of its length, so truncation matters.
C9_Witness ==
    /\ call.op = "sound_level"
    /\ raised = "None"
    /\ sum(samples.items) % Len(samples.items) # 0
    /\ ret.num > 0

(* C10: in every reachable state sound_level has a 160-element buffer,     *)
(* captures exactly 160 samples and returns a metric; it never fails       *)
(* because of the tone player's state.                                     *)
C10_SoundLevelAlwaysCaptures ==
    call.op = "sound_level" =>
        /\ raised = "None"
        /\ samples # None
        /\ Len(samples.items) = BufferLength
        /\ trace = <<"record">>
        /\ ret # None

====
